---- MODULE Spec2Model ----
(***************************************************************************)
(* Loopback OAuth callback coordinator of src-tauri/src/lib.rs:            *)
(* find_available_port, start_oauth_flow and the listener thread it        *)
(* spawns.  One flow = one invocation of start_oauth_flow.                 *)
(*                                                                         *)
(* Text is modelled as a sequence of lexemes (a run of ordinary            *)
(* characters, or one of the separators " ", "+", "%", or a hex digit      *)
(* that follows "%").  Option<T> is a sequence of length 0 or 1.           *)
(***************************************************************************)
EXTENDS Integers, Sequences, FiniteSets, TLC

\* ---------------------------------------------------------------- bounds
NFlows == 2
EnvWindow == 1
MaxPairs == 2
MaxRequests == 2

\* ------------------------------------------------------ program constants
PORT_START == 49152
PORT_END == 65535

Flows == 1..NFlows

None == <<>>
Some(x) == <<x>>

\* ------------------------------------------------------------------ text
TIMEOUT_MSG == <<"OAuth", " ", "timeout", " ", "-", " ", "no", " ", "callback", " ", "received">>
COORD_TIMEOUT_MSG == <<"OAuth", " ", "timeout", " ", "-", " ", "no", " ", "response", " ", "received">>
NO_PORT_MSG == <<"No", " ", "available", " ", "port", " ", "found">>

\* format!("Failed to start server: {}", e); e is the bind error's text
ServerStartMsg == <<"Failed", " ", "to", " ", "start", " ", "server:", " ", "<bind error>">>
\* format!("Failed to parse callback URL: {}", e)
CallbackParseMsg == <<"Failed", " ", "to", " ", "parse", " ", "callback", " ", "URL:", " ", "<parse error>">>
\* format!("Server error: {}", e)
ServerErrorMsg == <<"Server", " ", "error:", " ", "<io error>">>
\* format!("Failed to open browser: {}", e)
OpenBrowserMsg == <<"Failed", " ", "to", " ", "open", " ", "browser:", " ", "<launch error>">>
\* Url::parse(&auth_url_base).map_err(|e| e.to_string())
BaseParseMsg == <<"<parse error>">>

\* format!("http://127.0.0.1:{}", port)
RedirectUri(port) == [prefix |-> "http://127.0.0.1:", port |-> port]
\* the characters of the redirect_uri string
UriText(uri) == <<"http", ":", "/", "/", "127.0.0.1", ":", ToString(uri.port)>>
\* format!("127.0.0.1:{}", server_port)
ListenAddr(port) == [prefix |-> "127.0.0.1:", port |-> port]

OAuthResult(code, state, error, redirect_uri) ==
    [code |-> code, state |-> state, error |-> error, redirect_uri |-> redirect_uri]

\* Result<OAuthResult, String> of start_oauth_flow; Pending = not returned yet
Pending == [tag |-> "Pending"]
Ok(r) == [tag |-> "Ok", val |-> r]
Err(m) == [tag |-> "Err", msg |-> m]

\* ------------------------------------------- query decoding (url crate)
HexDigits == {"0", "2", "3", "5", "A", "B", "F"}

\* the byte a %XX escape stands for
HexChar(h, l) ==
    CASE h = "2" /\ l = "0" -> " "
      [] h = "2" /\ l = "2" -> "\""
      [] h = "0" /\ l = "0" -> "NUL"
      [] h = "0" /\ l = "2" -> "STX"
      [] h = "2" /\ l = "5" -> "%"
      [] h = "2" /\ l = "B" -> "+"
      [] h = "2" /\ l = "F" -> "/"
      [] h = "3" /\ l = "A" -> ":"

\* form_urlencoded decoding of one name or value: "+" is a space, %XX is
\* the escaped byte, anything else (a stray "%" included) is kept.
RECURSIVE Decode(_)
Decode(w) ==
    IF w = <<>> THEN <<>>
    ELSE IF w[1] = "+" THEN <<" ">> \o Decode(Tail(w))
    ELSE IF w[1] = "%" /\ Len(w) >= 3 /\ w[2] \in HexDigits /\ w[3] \in HexDigits
         THEN <<HexChar(w[2], w[3])>> \o Decode(SubSeq(w, 4, Len(w)))
    ELSE <<w[1]>> \o Decode(Tail(w))

\* append_pair's form_urlencoded serialisation of one name or value: a
\* space becomes "+", the other characters outside [A-Za-z0-9*-._] become
\* %XX
RECURSIVE Encode(_)
Encode(t) ==
    IF t = <<>> THEN <<>>
    ELSE (CASE t[1] = " " -> <<"+">>
            [] t[1] = "+" -> <<"%", "2", "B">>
            [] t[1] = "%" -> <<"%", "2", "5">>
            [] t[1] = "/" -> <<"%", "2", "F">>
            [] t[1] = ":" -> <<"%", "3", "A">>
            [] OTHER -> <<t[1]>>) \o Encode(Tail(t))

\* url.query_pairs().into_owned(): the decoded (name, value) pairs in order
QueryPairs(pairs) == [i \in 1..Len(pairs) |-> <<Decode(pairs[i][1]), Decode(pairs[i][2])>>]

\* variant of Collect: the first pair of a name is kept
RECURSIVE Collect_FirstWins(_)
Collect_FirstWins(ps) ==
    IF ps = <<>> THEN [k \in {} |-> <<>>]
    ELSE LET m == Collect_FirstWins(SubSeq(ps, 1, Len(ps) - 1))
             k == ps[Len(ps)][1]
             v == ps[Len(ps)][2]
         IN  [x \in (DOMAIN m) \cup {k} |-> IF x \in DOMAIN m THEN m[x] ELSE v]

\* .collect() into a HashMap: a later pair replaces an earlier one of the
\* same name
RECURSIVE Collect(_)
Collect(ps) ==
    IF ps = <<>> THEN [k \in {} |-> <<>>]
    ELSE LET m == Collect(SubSeq(ps, 1, Len(ps) - 1))
             k == ps[Len(ps)][1]
             v == ps[Len(ps)][2]
         IN  [x \in (DOMAIN m) \cup {k} |-> IF x = k THEN v ELSE m[x]]

\* params.get(key).cloned()
ParamsGet(m, key) == IF key \in DOMAIN m THEN Some(m[key]) ELSE None

\* lines 101-119: the OAuthResult built from the received request
BuildResult(req, uri) ==
    IF req.parses
    THEN LET params == Collect(QueryPairs(req.pairs))
         IN  OAuthResult(ParamsGet(params, <<"code">>),
                         ParamsGet(params, <<"state">>),
                         ParamsGet(params, <<"error">>),
                         Some(uri))
    ELSE OAuthResult(None, None, Some(CallbackParseMsg), Some(uri))

\* lines 180-185: the result of the listener's timeout branch
TimeoutResult(uri) == OAuthResult(None, None, Some(TIMEOUT_MSG), Some(uri))

\* variant of ChooseHtml: the two pages swapped
ChooseHtml_Swapped(result) == IF result.code # None THEN "Authentication Failed"
                              ELSE "Authentication Successful"

\* lines 122-168: the page chosen for the browser
ChooseHtml(result) == IF result.code # None THEN "Authentication Successful"
                      ELSE "Authentication Failed"

\* ---------------------------------------------------------------- inputs
WireKeys == {<<"code">>, <<"state">>, <<"error">>}
WireVals == {<<"A", "%", "2", "0", "B">>,
             <<"OAuth", "+", "timeout", "+", "-", "+", "no", "+", "callback", "+", "received">>}
WirePairs == WireKeys \X WireVals

RECURSIVE SeqsUpTo(_, _)
SeqsUpTo(S, n) ==
    IF n = 0 THEN {<<>>}
    ELSE LET shorter == SeqsUpTo(S, n - 1)
         IN  shorter \cup {Append(s, x) : s \in {t \in shorter : Len(t) = n - 1}, x \in S}

\* an inbound HTTP request: its target either parses as a URL once prefixed
\* with http://127.0.0.1 (and then has a query), or does not
Requests == {[parses |-> FALSE, pairs |-> <<>>]}
            \cup {[parses |-> TRUE, pairs |-> ps] : ps \in SeqsUpTo(WirePairs, MaxPairs)}

\* the requests that may queue up behind the first one of a flow: the
\* unparsable one and the one whose query is a single code
LaterRequests ==
    {[parses |-> FALSE, pairs |-> <<>>],
     [parses |-> TRUE, pairs |-> << <<<<"code">>, <<"A", "%", "2", "0", "B">>>> >>]}

\* the client_id, scope and state arguments a caller may pass
ArgTexts == {<<>>, <<"read", " ", "write", "+", "x">>}
ArgSets == [client_id : ArgTexts, scope : ArgTexts, state : ArgTexts]
DefaultArgs == [client_id |-> <<"abc">>, scope |-> <<"read", " ", "write">>, state |-> <<"xyz123">>]

\* the ports other processes may take and give back while a flow runs
Window == PORT_START..(PORT_START + EnvWindow - 1)

VARIABLES
    active,     \* the flows the host invokes
    baseOk,     \* per flow: does auth_url_base parse as a URL
    args,       \* per flow: the client_id, scope and state arguments
    envBusy,    \* ports of Window bound by other processes
    restBusy,   \* are all ports outside Window bound by other processes
    pc,         \* per flow: position of start_oauth_flow
    port,       \* per flow: Option, the port find_available_port returned
    probes,     \* per flow: number of find_available_port calls made
    authUrl,    \* per flow: Option, the authorization URL built
    rxAlive,    \* per flow: the receiver rx exists and is not dropped
    chan,       \* per flow: messages queued in the mpsc channel
    sent,       \* per flow: every value the listener passed to tx.send
    ret,        \* per flow: what start_oauth_flow returned
    launched,   \* per flow: URLs handed to open::that
    focus,      \* per flow: "none" | "spawned", the window focus thread
    lpc,        \* per flow: position of the listener thread
    lsock,      \* per flow: Option, the port the listener's server holds
    inbox,      \* per flow: requests accepted by the server, not yet taken
    arrived,    \* per flow: number of requests that reached the server
    firstReq,   \* per flow: Option, the request recv_timeout returned
    result,     \* per flow: Option, the listener's local `result`
    page,       \* per flow: Option, the html chosen for the response
    written,    \* per flow: "none" | "ok" | "failed", outcome of respond
    lbranch,    \* per flow: which branch the listener took
    cbranch,    \* per flow: which return of start_oauth_flow was taken
    firstArrived \* per flow: Option, the first request that reached the server

vars == <<active, baseOk, args, envBusy, restBusy, pc, port, probes, authUrl, rxAlive,
          chan, sent, ret, launched, focus, lpc, lsock, inbox, arrived,
          firstReq, result, page, written, lbranch, cbranch, firstArrived>>

coordVars == <<pc, port, probes, authUrl, rxAlive, ret, launched, focus, cbranch>>
listenerVars == <<lpc, lsock, firstReq, result, page, written, lbranch, sent>>
inputVars == <<active, baseOk, args, restBusy>>

\* ------------------------------------------------------------ the network
\* would a bind of port p fail now
Busy(p) ==
    \/ p \in envBusy
    \/ restBusy /\ p \notin Window /\ p < PORT_END
    \/ \E f \in Flows : lsock[f] = Some(p)

\* variant of find_available_port: the range includes its end, 65535
find_available_port_Inclusive ==
    IF \E p \in PORT_START..PORT_END : ~Busy(p)
    THEN Some(CHOOSE p \in PORT_START..PORT_END :
                  ~Busy(p) /\ \A q \in PORT_START..(p - 1) : Busy(q))
    ELSE None

\* lines 36-44: the first port of 49152..65535 (end excluded), in ascending
\* order, whose probe bind succeeds; the probe socket is a temporary of the
\* `if` condition and is closed before the function returns
find_available_port ==
    IF \E p \in PORT_START..(PORT_END - 1) : ~Busy(p)
    THEN Some(CHOOSE p \in PORT_START..(PORT_END - 1) :
                  ~Busy(p) /\ \A q \in PORT_START..(p - 1) : Busy(q))
    ELSE None

\* variant of AuthUrl: a pair whose value is empty is left out
AuthUrl_SkipEmpty(a, uri) ==
    [base |-> "<auth_url_base>",
     query |-> SelectSeq(<< <<"client_id", Encode(a.client_id)>>,
                            <<"redirect_uri", Encode(UriText(uri))>>,
                            <<"response_type", Encode(<<"code">>)>>,
                            <<"scope", Encode(a.scope)>>,
                            <<"access_type", Encode(<<"offline">>)>>,
                            <<"prompt", Encode(<<"consent">>)>>,
                            <<"state", Encode(a.state)>> >>,
                         LAMBDA pr : pr[2] # <<>>)]

\* lines 61-70: the authorization URL: the parsed base and the query pairs
\* appended to it, in order, each value serialised by append_pair
AuthUrl(a, uri) ==
    [base |-> "<auth_url_base>",
     query |-> << <<"client_id", Encode(a.client_id)>>,
                  <<"redirect_uri", Encode(UriText(uri))>>,
                  <<"response_type", Encode(<<"code">>)>>,
                  <<"scope", Encode(a.scope)>>,
                  <<"access_type", Encode(<<"offline">>)>>,
                  <<"prompt", Encode(<<"consent">>)>>,
                  <<"state", Encode(a.state)>> >>]

\* ------------------------------------------------------------------ Init
InitFlow ==
    /\ pc = [f \in Flows |-> "start"]
    /\ port = [f \in Flows |-> None]
    /\ probes = [f \in Flows |-> 0]
    /\ authUrl = [f \in Flows |-> None]
    /\ rxAlive = [f \in Flows |-> FALSE]
    /\ chan = [f \in Flows |-> <<>>]
    /\ sent = [f \in Flows |-> <<>>]
    /\ ret = [f \in Flows |-> Pending]
    /\ launched = [f \in Flows |-> <<>>]
    /\ focus = [f \in Flows |-> "none"]
    /\ lpc = [f \in Flows |-> "none"]
    /\ lsock = [f \in Flows |-> None]
    /\ inbox = [f \in Flows |-> <<>>]
    /\ arrived = [f \in Flows |-> 0]
    /\ firstReq = [f \in Flows |-> None]
    /\ result = [f \in Flows |-> None]
    /\ page = [f \in Flows |-> None]
    /\ written = [f \in Flows |-> "none"]
    /\ lbranch = [f \in Flows |-> "none"]
    /\ cbranch = [f \in Flows |-> "none"]
    /\ firstArrived = [f \in Flows |-> None]

\* any ports of Window are taken at entry; the ports outside Window are
\* free, or all taken when Window is too (no port left)
InitEnv ==
    /\ envBusy \in SUBSET Window
    /\ restBusy \in BOOLEAN
    /\ restBusy => envBusy = Window

\* one invocation of start_oauth_flow
Init ==
    /\ active = {1}
    /\ baseOk \in {b \in [Flows -> BOOLEAN] : \A f \in Flows \ active : b[f]}
    /\ args = [f \in Flows |-> DefaultArgs]
    /\ InitEnv
    /\ InitFlow

\* one invocation, with any of the argument texts
InitArgs ==
    /\ active = {1}
    /\ baseOk \in {b \in [Flows -> BOOLEAN] : \A f \in Flows \ active : b[f]}
    /\ args \in {a \in [Flows -> ArgSets \cup {DefaultArgs}] :
                    \A f \in Flows : (f \in active) = (a[f] # DefaultArgs)}
    /\ InitEnv
    /\ InitFlow

\* every flow invoked, concurrently
InitFlows ==
    /\ active = Flows
    /\ baseOk = [f \in Flows |-> TRUE]
    /\ args = [f \in Flows |-> DefaultArgs]
    /\ InitEnv
    /\ InitFlow

\* ----------------------------------------------------- start_oauth_flow
\* variant of FindPort: a missing port is not returned as an error, the
\* flow goes on to start its listener
FindPort_NoReturn(f) ==
    /\ f \in active
    /\ pc[f] = "start"
    /\ probes' = [probes EXCEPT ![f] = @ + 1]
    /\ port' = [port EXCEPT ![f] = find_available_port]
    /\ pc' = [pc EXCEPT ![f] = "build"]
    /\ UNCHANGED <<ret, cbranch>>
    /\ UNCHANGED <<authUrl, rxAlive, launched, focus, chan, inbox, arrived, firstArrived, envBusy>>
    /\ UNCHANGED <<listenerVars, inputVars>>

\* line 57: find_available_port().ok_or("No available port found")?
FindPort(f) ==
    /\ f \in active
    /\ pc[f] = "start"
    /\ probes' = [probes EXCEPT ![f] = @ + 1]
    /\ LET r == find_available_port
       IN  IF r = None
           THEN /\ ret' = [ret EXCEPT ![f] = Err(NO_PORT_MSG)]
                /\ pc' = [pc EXCEPT ![f] = "returned"]
                /\ cbranch' = [cbranch EXCEPT ![f] = "noport"]
                /\ port' = port
           ELSE /\ port' = [port EXCEPT ![f] = r]
                /\ pc' = [pc EXCEPT ![f] = "build"]
                /\ UNCHANGED <<ret, cbranch>>
    /\ UNCHANGED <<authUrl, rxAlive, launched, focus, chan, inbox, arrived, firstArrived, envBusy>>
    /\ UNCHANGED <<listenerVars, inputVars>>

\* lines 58-70: redirect_uri, Url::parse(&auth_url_base)?, query pairs
BuildUrl(f) ==
    /\ pc[f] = "build"
    /\ IF baseOk[f]
       THEN /\ authUrl' = [authUrl EXCEPT ![f] = Some(AuthUrl(args[f], RedirectUri(port[f][1])))]
            /\ pc' = [pc EXCEPT ![f] = "spawn"]
            /\ UNCHANGED <<ret, cbranch>>
       ELSE /\ ret' = [ret EXCEPT ![f] = Err(BaseParseMsg)]
            /\ pc' = [pc EXCEPT ![f] = "returned"]
            /\ cbranch' = [cbranch EXCEPT ![f] = "badurl"]
            /\ authUrl' = authUrl
    /\ UNCHANGED <<port, probes, rxAlive, launched, focus, chan, inbox, arrived, firstArrived, envBusy>>
    /\ UNCHANGED <<listenerVars, inputVars>>

\* lines 73-77: mpsc::channel() and thread::spawn of the listener
SpawnListener(f) ==
    /\ pc[f] = "spawn"
    /\ rxAlive' = [rxAlive EXCEPT ![f] = TRUE]
    /\ lpc' = [lpc EXCEPT ![f] = "bind"]
    /\ pc' = [pc EXCEPT ![f] = "open"]
    /\ UNCHANGED <<port, probes, authUrl, ret, launched, focus, cbranch, chan, inbox, arrived, firstArrived, envBusy>>
    /\ UNCHANGED <<lsock, firstReq, result, page, written, lbranch, sent, inputVars>>

\* lines 199-210: open::that(auth_url); on failure return Err (rx is
\* dropped with the frame), otherwise spawn the window focus thread, which
\* sleeps 500 ms and focuses the main window (it touches nothing of the flow)
OpenBrowser(f, ok) ==
    /\ pc[f] = "open"
    /\ launched' = [launched EXCEPT ![f] = Append(@, authUrl[f][1])]
    /\ IF ok
       THEN /\ focus' = [focus EXCEPT ![f] = "spawned"]
            /\ pc' = [pc EXCEPT ![f] = "wait"]
            /\ UNCHANGED <<ret, rxAlive, chan, cbranch>>
       ELSE /\ ret' = [ret EXCEPT ![f] = Err(OpenBrowserMsg)]
            /\ pc' = [pc EXCEPT ![f] = "returned"]
            /\ cbranch' = [cbranch EXCEPT ![f] = "launchfail"]
            /\ rxAlive' = [rxAlive EXCEPT ![f] = FALSE]
            /\ chan' = [chan EXCEPT ![f] = <<>>]
            /\ focus' = focus
    /\ UNCHANGED <<port, probes, authUrl, inbox, arrived, firstArrived, envBusy>>
    /\ UNCHANGED <<listenerVars, inputVars>>

\* lines 213-214: rx.recv_timeout returns a queued message
CoordRecv(f) ==
    /\ pc[f] = "wait"
    /\ chan[f] # <<>>
    /\ ret' = [ret EXCEPT ![f] = Ok(Head(chan[f]))]
    /\ pc' = [pc EXCEPT ![f] = "returned"]
    /\ cbranch' = [cbranch EXCEPT ![f] = "recv"]
    /\ rxAlive' = [rxAlive EXCEPT ![f] = FALSE]
    /\ chan' = [chan EXCEPT ![f] = <<>>]
    /\ UNCHANGED <<port, probes, authUrl, launched, focus, inbox, arrived, firstArrived, envBusy>>
    /\ UNCHANGED <<listenerVars, inputVars>>

\* variant of CoordTimeout: on a timeout the listener is started again
CoordTimeout_Retry(f) ==
    /\ pc[f] = "wait"
    /\ chan[f] = <<>>
    /\ pc' = [pc EXCEPT ![f] = "spawn"]
    /\ UNCHANGED <<port, probes, authUrl, rxAlive, ret, launched, focus, cbranch>>
    /\ UNCHANGED <<chan, inbox, arrived, firstArrived, envBusy>>
    /\ UNCHANGED <<listenerVars, inputVars>>

\* variant of CoordTimeout: the wait has no deadline, the coordinator
\* goes on waiting
CoordTimeout_WaitAgain(f) ==
    /\ pc[f] = "wait"
    /\ chan[f] = <<>>
    /\ pc' = [pc EXCEPT ![f] = "wait"]
    /\ UNCHANGED <<port, probes, authUrl, rxAlive, ret, launched, focus, cbranch>>
    /\ UNCHANGED <<chan, inbox, arrived, firstArrived, envBusy>>
    /\ UNCHANGED <<listenerVars, inputVars>>

\* lines 213-215: rx.recv_timeout(300 s) runs out with the channel empty
CoordTimeout(f) ==
    /\ pc[f] = "wait"
    /\ chan[f] = <<>>
    /\ ret' = [ret EXCEPT ![f] = Err(COORD_TIMEOUT_MSG)]
    /\ pc' = [pc EXCEPT ![f] = "returned"]
    /\ cbranch' = [cbranch EXCEPT ![f] = "timeout"]
    /\ rxAlive' = [rxAlive EXCEPT ![f] = FALSE]
    /\ UNCHANGED <<port, probes, authUrl, launched, focus, chan, inbox, arrived, firstArrived, envBusy>>
    /\ UNCHANGED <<listenerVars, inputVars>>

\* -------------------------------------------------------- listener thread
\* variant of ListenerBind: a failed bind is unwrapped, the thread panics
\* and ends without a result
ListenerBind_Panic(f) ==
    /\ lpc[f] = "bind"
    /\ IF ~Busy(ListenAddr(port[f][1]).port)
       THEN /\ lsock' = [lsock EXCEPT ![f] = Some(ListenAddr(port[f][1]).port)]
            /\ lpc' = [lpc EXCEPT ![f] = "listen"]
            /\ UNCHANGED <<result, lbranch>>
       ELSE /\ lbranch' = [lbranch EXCEPT ![f] = "bindfail"]
            /\ lpc' = [lpc EXCEPT ![f] = "done"]
            /\ UNCHANGED <<result, lsock>>
    /\ UNCHANGED <<firstReq, page, written, sent, chan, inbox, arrived, firstArrived, envBusy>>
    /\ UNCHANGED <<coordVars, inputVars>>

\* lines 78-90: Server::http(&addr); a failed bind makes the failure result
ListenerBind(f) ==
    /\ lpc[f] = "bind"
    /\ IF ~Busy(ListenAddr(port[f][1]).port)
       THEN /\ lsock' = [lsock EXCEPT ![f] = Some(ListenAddr(port[f][1]).port)]
            /\ lpc' = [lpc EXCEPT ![f] = "listen"]
            /\ UNCHANGED <<result, lbranch>>
       ELSE /\ result' = [result EXCEPT ![f] =
                  Some(OAuthResult(None, None, Some(ServerStartMsg),
                                   Some(RedirectUri(port[f][1]))))]
            /\ lbranch' = [lbranch EXCEPT ![f] = "bindfail"]
            /\ lpc' = [lpc EXCEPT ![f] = "send"]
            /\ lsock' = lsock
    /\ UNCHANGED <<firstReq, page, written, sent, chan, inbox, arrived, firstArrived, envBusy>>
    /\ UNCHANGED <<coordVars, inputVars>>

\* variant of ListenerRecv: the most recent queued request is served
ListenerRecv_Last(f) ==
    /\ lpc[f] = "listen"
    /\ inbox[f] # <<>>
    /\ LET req == inbox[f][Len(inbox[f])]
           res == BuildResult(req, RedirectUri(port[f][1]))
       IN  /\ firstReq' = [firstReq EXCEPT ![f] = Some(req)]
           /\ result' = [result EXCEPT ![f] = Some(res)]
           /\ page' = [page EXCEPT ![f] = Some(ChooseHtml(res))]
    /\ inbox' = [inbox EXCEPT ![f] = <<>>]
    /\ lbranch' = [lbranch EXCEPT ![f] = "request"]
    /\ lpc' = [lpc EXCEPT ![f] = "respond"]
    /\ UNCHANGED <<lsock, written, sent, chan, arrived, firstArrived, envBusy>>
    /\ UNCHANGED <<coordVars, inputVars>>

\* lines 96-168: recv_timeout returns the first queued request; the result
\* and the page are computed from it.  recv_timeout is called once, so what
\* else is queued is never read: inbox keeps only what it may still return
ListenerRecv(f) ==
    /\ lpc[f] = "listen"
    /\ inbox[f] # <<>>
    /\ LET req == Head(inbox[f])
           res == BuildResult(req, RedirectUri(port[f][1]))
       IN  /\ firstReq' = [firstReq EXCEPT ![f] = Some(req)]
           /\ result' = [result EXCEPT ![f] = Some(res)]
           /\ page' = [page EXCEPT ![f] = Some(ChooseHtml(res))]
    /\ inbox' = [inbox EXCEPT ![f] = <<>>]
    /\ lbranch' = [lbranch EXCEPT ![f] = "request"]
    /\ lpc' = [lpc EXCEPT ![f] = "respond"]
    /\ UNCHANGED <<lsock, written, sent, chan, arrived, firstArrived, envBusy>>
    /\ UNCHANGED <<coordVars, inputVars>>

\* variant of ListenerTimeout: the wait has no deadline, the listener goes
\* on waiting for a request
ListenerTimeout_WaitAgain(f) ==
    /\ lpc[f] = "listen"
    /\ inbox[f] = <<>>
    /\ lpc' = [lpc EXCEPT ![f] = "listen"]
    /\ UNCHANGED <<result, lbranch>>
    /\ UNCHANGED <<lsock, firstReq, page, written, sent, chan, inbox, arrived, firstArrived, envBusy>>
    /\ UNCHANGED <<coordVars, inputVars>>

\* lines 96, 179-186: recv_timeout(300 s) runs out with no request queued
ListenerTimeout(f) ==
    /\ lpc[f] = "listen"
    /\ inbox[f] = <<>>
    /\ result' = [result EXCEPT ![f] = Some(TimeoutResult(RedirectUri(port[f][1])))]
    /\ lbranch' = [lbranch EXCEPT ![f] = "timeout"]
    /\ lpc' = [lpc EXCEPT ![f] = "send"]
    /\ UNCHANGED <<lsock, firstReq, page, written, sent, chan, inbox, arrived, firstArrived, envBusy>>
    /\ UNCHANGED <<coordVars, inputVars>>

\* lines 96, 187-194: recv_timeout fails with an I/O error
ListenerIoError(f) ==
    /\ lpc[f] = "listen"
    /\ result' = [result EXCEPT ![f] =
          Some(OAuthResult(None, None, Some(ServerErrorMsg), Some(RedirectUri(port[f][1]))))]
    /\ lbranch' = [lbranch EXCEPT ![f] = "ioerror"]
    /\ lpc' = [lpc EXCEPT ![f] = "send"]
    /\ inbox' = [inbox EXCEPT ![f] = <<>>]
    /\ UNCHANGED <<lsock, firstReq, page, written, sent, chan, arrived, firstArrived, envBusy>>
    /\ UNCHANGED <<coordVars, inputVars>>

\* variant of ListenerRespond: a failed write is propagated, the closure
\* returns before tx.send
ListenerRespond_Propagate(f, ok) ==
    /\ lpc[f] = "respond"
    /\ written' = [written EXCEPT ![f] = IF ok THEN "ok" ELSE "failed"]
    /\ lpc' = [lpc EXCEPT ![f] = IF ok THEN "send" ELSE "exit"]
    /\ UNCHANGED <<lsock, firstReq, result, page, lbranch, sent, chan, inbox, arrived, firstArrived, envBusy>>
    /\ UNCHANGED <<coordVars, inputVars>>

\* lines 170-175: let _ = request.respond(response); the write may fail
ListenerRespond(f, ok) ==
    /\ lpc[f] = "respond"
    /\ written' = [written EXCEPT ![f] = IF ok THEN "ok" ELSE "failed"]
    /\ lpc' = [lpc EXCEPT ![f] = "send"]
    /\ UNCHANGED <<lsock, firstReq, result, page, lbranch, sent, chan, inbox, arrived, firstArrived, envBusy>>
    /\ UNCHANGED <<coordVars, inputVars>>

\* variant of ListenerSend: the message is queued whether or not the
\* receiver still exists
ListenerSend_AlwaysQueued(f) ==
    /\ lpc[f] = "send"
    /\ sent' = [sent EXCEPT ![f] = Append(@, result[f][1])]
    /\ chan' = [chan EXCEPT ![f] = Append(@, result[f][1])]
    /\ lpc' = [lpc EXCEPT ![f] = "exit"]
    /\ UNCHANGED <<lsock, firstReq, result, page, written, lbranch, inbox, arrived, firstArrived, envBusy>>
    /\ UNCHANGED <<coordVars, inputVars>>

\* lines 82, 177, 180, 188: let _ = tx.send(result); the message is queued
\* only while the receiver exists
ListenerSend(f) ==
    /\ lpc[f] = "send"
    /\ sent' = [sent EXCEPT ![f] = Append(@, result[f][1])]
    /\ chan' = [chan EXCEPT ![f] = IF rxAlive[f] THEN Append(@, result[f][1]) ELSE @]
    /\ lpc' = [lpc EXCEPT ![f] = "exit"]
    /\ UNCHANGED <<lsock, firstReq, result, page, written, lbranch, inbox, arrived, firstArrived, envBusy>>
    /\ UNCHANGED <<coordVars, inputVars>>

\* variant of ListenerExit: the server is leaked, its socket stays bound
ListenerExit_KeepSocket(f) ==
    /\ lpc[f] = "exit"
    /\ lpc' = [lpc EXCEPT ![f] = "done"]
    /\ UNCHANGED <<lsock, inbox, firstReq, result, page, written, lbranch, sent>>
    /\ UNCHANGED <<chan, arrived, firstArrived, envBusy>>
    /\ UNCHANGED <<coordVars, inputVars>>

\* lines 88, 196: the closure ends; the server (if any) is dropped, which
\* closes the socket and discards the requests still queued
ListenerExit(f) ==
    /\ lpc[f] = "exit"
    /\ lsock' = [lsock EXCEPT ![f] = None]
    /\ inbox' = [inbox EXCEPT ![f] = <<>>]
    /\ lpc' = [lpc EXCEPT ![f] = "done"]
    /\ UNCHANGED <<firstReq, result, page, written, lbranch, sent, chan, arrived, firstArrived, envBusy>>
    /\ UNCHANGED <<coordVars, inputVars>>

\* ------------------------------------------------------------ environment
\* the requests the network may deliver next to flow f
Arrivals(f) == IF arrived[f] = 0 THEN Requests ELSE LaterRequests

\* an HTTP request reaches the bound server while the listener is in
\* recv_timeout, and is queued for it (a request that comes after
\* recv_timeout has returned is queued too, but the listener never reads the
\* queue again and drops it with the server: it changes no state)
Arrive(f) ==
    /\ lsock[f] # None
    /\ lpc[f] = "listen"
    /\ arrived[f] < MaxRequests
    /\ \E req \in Arrivals(f) :
          /\ inbox' = [inbox EXCEPT ![f] = Append(@, req)]
          /\ firstArrived' = [firstArrived EXCEPT ![f] = IF arrived[f] = 0 THEN Some(req) ELSE @]
    /\ arrived' = [arrived EXCEPT ![f] = @ + 1]
    /\ UNCHANGED <<chan, envBusy, coordVars, listenerVars, inputVars>>

\* Arrive with every request drawn from LaterRequests
ArriveLean(f) ==
    /\ lsock[f] # None
    /\ lpc[f] = "listen"
    /\ arrived[f] < MaxRequests
    /\ \E req \in LaterRequests :
          /\ inbox' = [inbox EXCEPT ![f] = Append(@, req)]
          /\ firstArrived' = [firstArrived EXCEPT ![f] = IF arrived[f] = 0 THEN Some(req) ELSE @]
    /\ arrived' = [arrived EXCEPT ![f] = @ + 1]
    /\ UNCHANGED <<chan, envBusy, coordVars, listenerVars, inputVars>>

\* another process binds a free port
EnvBind(p) ==
    /\ p \in Window
    /\ ~Busy(p)
    /\ envBusy' = envBusy \cup {p}
    /\ UNCHANGED <<chan, inbox, arrived, firstArrived, coordVars, listenerVars, inputVars>>

\* another process closes its socket
EnvRelease(p) ==
    /\ p \in envBusy
    /\ envBusy' = envBusy \ {p}
    /\ UNCHANGED <<chan, inbox, arrived, firstArrived, coordVars, listenerVars, inputVars>>

Next ==
    \/ \E f \in Flows : FindPort(f)
    \/ \E f \in Flows : BuildUrl(f)
    \/ \E f \in Flows : SpawnListener(f)
    \/ \E f \in Flows, ok \in BOOLEAN : OpenBrowser(f, ok)
    \/ \E f \in Flows : CoordRecv(f)
    \/ \E f \in Flows : CoordTimeout(f)
    \/ \E f \in Flows : ListenerBind(f)
    \/ \E f \in Flows : ListenerRecv(f)
    \/ \E f \in Flows : ListenerTimeout(f)
    \/ \E f \in Flows : ListenerIoError(f)
    \/ \E f \in Flows, ok \in BOOLEAN : ListenerRespond(f, ok)
    \/ \E f \in Flows : ListenerSend(f)
    \/ \E f \in Flows : ListenerExit(f)
    \/ \E f \in Flows : Arrive(f)
    \/ \E p \in Window : EnvBind(p)
    \/ \E p \in Window : EnvRelease(p)

Spec == Init /\ [][Next]_vars

\* the steps the coordinator's thread takes when it is scheduled
CoordStep(f) ==
    \/ FindPort(f)
    \/ BuildUrl(f)
    \/ SpawnListener(f)
    \/ \E ok \in BOOLEAN : OpenBrowser(f, ok)
    \/ CoordRecv(f)
    \/ CoordTimeout(f)

\* the steps the listener's thread takes when it is scheduled; an I/O error
\* of recv_timeout is an event of the environment, not one of them
ListenerStep(f) ==
    \/ ListenerBind(f)
    \/ ListenerRecv(f)
    \/ ListenerTimeout(f)
    \/ \E ok \in BOOLEAN : ListenerRespond(f, ok)
    \/ ListenerSend(f)
    \/ ListenerExit(f)

\* Next with the requests drawn from LaterRequests
NextLean ==
    \/ \E f \in Flows : CoordStep(f)
    \/ \E f \in Flows : ListenerStep(f)
    \/ \E f \in Flows : ListenerIoError(f)
    \/ \E f \in Flows : ArriveLean(f)
    \/ \E p \in Window : EnvBind(p)
    \/ \E p \in Window : EnvRelease(p)

\* one flow, any argument texts
SpecArgs == InitArgs /\ [][NextLean]_vars

\* every flow started concurrently
SpecFlows == InitFlows /\ [][NextLean]_vars

\* one flow; the coordinator's thread is scheduled and its timer fires
SpecCoordFair ==
    InitArgs /\ [][NextLean]_vars /\ \A f \in Flows : WF_vars(CoordStep(f))

\* one flow; the listener's thread is scheduled and its timer fires
SpecListenerFair ==
    InitArgs /\ [][NextLean]_vars /\ \A f \in Flows : WF_vars(ListenerStep(f))


\* ================================================================ claims
\* the flow's redirect URI and the value a query gives a name, stated
\* directly: the value of the last pair whose decoded name is `key`
FlowUri(f) == RedirectUri(port[f][1])

LastValue(req, key) ==
    LET idx == {i \in 1..Len(req.pairs) : Decode(req.pairs[i][1]) = key}
    IN  IF idx = {} THEN None
        ELSE Some(Decode(req.pairs[CHOOSE i \in idx : \A j \in idx : j <= i][2]))

\* the listener of flow f served a request and has published
Served(f) == lbranch[f] = "request" /\ lpc[f] \in {"exit", "done"}

\* ---------------------------------------------------------------- C1
C1_Inv ==
    \A f \in Flows :
        /\ Len(sent[f]) <= 1
        /\ Len(chan[f]) <= 1
        /\ lpc[f] \in {"exit", "done"} => Len(sent[f]) = 1
        /\ lpc[f] \in {"none", "bind", "listen", "respond", "send"} => sent[f] = <<>>
        /\ chan[f] # <<>> => chan[f] = sent[f]
        /\ ret[f].tag = "Ok" => sent[f] = <<ret[f].val>>
        /\ Served(f) =>
              /\ firstArrived[f] # None
              /\ sent[f] = <<BuildResult(firstArrived[f][1], FlowUri(f))>>

C1_Step == \A f \in Flows : sent[f] # <<>> => sent'[f] = sent[f]

\* C1: every run of the listener passes exactly one FlowResult to the
\* result channel (none before it publishes, one from then on, never two),
\* whatever the number of requests and their interleaving with the
\* deadline; the channel and the caller only ever hold that value; when a
\* request is served the published result is the one computed from the
\* first request, and nothing changes it afterwards.
C1_ExactlyOnePublish == [] C1_Inv /\ [][C1_Step]_vars

\* a listener that received two different requests has terminated
C1_Witness ==
    \E f \in Flows :
        /\ lpc[f] = "done"
        /\ lbranch[f] = "request"
        /\ arrived[f] >= 2
        /\ Len(sent[f]) = 1
        /\ sent[f][1].code # None

\* ---------------------------------------------------------------- C2
FlowState(f) ==
    CASE pc[f] = "start" -> "Idle"
      [] pc[f] \in {"build", "spawn"} -> "PortAllocated"
      [] pc[f] \in {"open", "wait"} -> "AwaitingCallback"
      [] pc[f] = "returned" -> "Completed"

Rank(st) ==
    CASE st = "Idle" -> 0
      [] st = "PortAllocated" -> 1
      [] st = "AwaitingCallback" -> 2
      [] st = "Completed" -> 3

C2_Step ==
    \A f \in Flows :
        LET a == FlowState(f)
            b == FlowState(f)'
        IN  /\ Rank(b) >= Rank(a)
            /\ b # a => (Rank(b) = Rank(a) + 1 \/ b = "Completed")
            /\ a = "Completed" => (pc'[f] = pc[f] /\ ret'[f] = ret[f])
            /\ (a # "Completed" /\ b = "Completed") => (ret[f] = Pending /\ ret'[f] # Pending)
            /\ b # "Completed" => ret'[f] = Pending

\* C2: a flow only moves forward through Idle, PortAllocated,
\* AwaitingCallback, Completed: no step goes back to an earlier state, so
\* AwaitingCallback is entered at most once; a value is returned exactly on
\* entering Completed, and a Completed flow changes neither state nor outcome.
C2_LinearStateMachine == [][C2_Step]_vars

\* a flow went through every state and returned the listener's result
C2_Witness ==
    \E f \in Flows : pc[f] = "returned" /\ cbranch[f] = "recv" /\ ret[f].tag = "Ok"

\* ---------------------------------------------------------------- C3
\* C3: when the browser was launched, the first request parses, its query
\* has a code, the listener served it and the coordinator's wait got the
\* result before its deadline, the flow returns Ok with the last code value,
\* the last state value and http://127.0.0.1:<port>, and the page chosen
\* for the browser is the success page.
C3_SuccessPath ==
    \A f \in Flows :
        (/\ cbranch[f] = "recv"
         /\ lbranch[f] = "request"
         /\ firstArrived[f] # None
         /\ firstArrived[f][1].parses
         /\ LastValue(firstArrived[f][1], <<"code">>) # None)
        => /\ ret[f].tag = "Ok"
           /\ ret[f].val.code = LastValue(firstArrived[f][1], <<"code">>)
           /\ ret[f].val.state = LastValue(firstArrived[f][1], <<"state">>)
           /\ ret[f].val.redirect_uri = Some([prefix |-> "http://127.0.0.1:", port |-> port[f][1]])
           /\ page[f] = Some("Authentication Successful")

\* a returned success whose request carried two different code values
C3_Witness ==
    \E f \in Flows :
        /\ cbranch[f] = "recv"
        /\ lbranch[f] = "request"
        /\ firstArrived[f] # None
        /\ Len(firstArrived[f][1].pairs) = 2
        /\ firstArrived[f][1].pairs[1][1] = <<"code">>
        /\ firstArrived[f][1].pairs[2][1] = <<"code">>
        /\ firstArrived[f][1].pairs[1][2] # firstArrived[f][1].pairs[2][2]
        /\ ret[f].val.code = Some(<<"A", " ", "B">>)

\* ---------------------------------------------------------------- C4
\* C4: when the first request's query has an error and no code, the
\* listener publishes a result with no code, the last error value as decoded
\* from the query, and the flow's redirect URI, and the page chosen is the
\* failure page.
C4_ProviderError ==
    \A f \in Flows :
        (/\ Served(f)
         /\ firstArrived[f] # None
         /\ firstArrived[f][1].parses
         /\ LastValue(firstArrived[f][1], <<"error">>) # None
         /\ LastValue(firstArrived[f][1], <<"code">>) = None)
        => /\ Len(sent[f]) = 1
           /\ sent[f][1].code = None
           /\ sent[f][1].error = LastValue(firstArrived[f][1], <<"error">>)
           /\ sent[f][1].redirect_uri = Some(FlowUri(f))
           /\ page[f] = Some("Authentication Failed")

\* a published provider error, with a state, served the failure page
C4_Witness ==
    \E f \in Flows :
        /\ Served(f)
        /\ firstArrived[f][1].pairs = << <<<<"error">>, <<"A", "%", "2", "0", "B">>>>,
                                        <<<<"state">>, <<"A", "%", "2", "0", "B">>>> >>
        /\ sent[f][1].error = Some(<<"A", " ", "B">>)
        /\ page[f] = Some("Authentication Failed")

\* ---------------------------------------------------------------- C5
\* C5: no result published by the listener or returned by start_oauth_flow
\* carries both a code and an error.
C5_MutuallyExclusive ==
    \A f \in Flows :
        /\ \A i \in 1..Len(sent[f]) : ~(sent[f][i].code # None /\ sent[f][i].error # None)
        /\ ret[f].tag = "Ok" => ~(ret[f].val.code # None /\ ret[f].val.error # None)

\* ---------------------------------------------------------------- C6
\* C6: every result published by the listener carries a code or an error.
C6_CodeOrError ==
    \A f \in Flows :
        \A i \in 1..Len(sent[f]) : sent[f][i].code # None \/ sent[f][i].error # None

\* ---------------------------------------------------------------- C7
\* C7: when the listener's wait ran out with no request queued, it served
\* no request and wrote no response, what it publishes is the timeout
\* result with the flow's redirect URI, and once it has terminated it holds
\* no socket on its port.
C7_ListenerTimeout ==
    \A f \in Flows :
        lbranch[f] = "timeout"
        => /\ firstReq[f] = None
           /\ page[f] = None
           /\ written[f] = "none"
           /\ lpc[f] \in {"exit", "done"} =>
                 sent[f] = <<OAuthResult(None, None, Some(TIMEOUT_MSG), Some(FlowUri(f)))>>
           /\ lpc[f] = "done" => lsock[f] = None

\* a listener that timed out has terminated
C7_Witness ==
    \E f \in Flows :
        /\ lbranch[f] = "timeout"
        /\ lpc[f] = "done"
        /\ arrived[f] = 0
        /\ ~Busy(port[f][1])

\* ---------------------------------------------------------------- C8
\* C8: the result returned for a served callback is never the result the
\* listener publishes on its timeout.
C8_TimeoutDistinct ==
    \A f \in Flows :
        (cbranch[f] = "recv" /\ lbranch[f] = "request")
        => ret[f].val # TimeoutResult(FlowUri(f))

\* ---------------------------------------------------------------- C9
\* C9: when the coordinator's own wait runs out, start_oauth_flow returns
\* the timeout result carrying the flow's redirect URI.
C9_CoordTimeoutIsTimeout ==
    \A f \in Flows :
        cbranch[f] = "timeout" => ret[f] = Ok(TimeoutResult(FlowUri(f)))

\* ---------------------------------------------------------------- C10
\* C10: a flow whose base URL does not parse returns the parse error with
\* no port probed, no listener started and no browser launched.
C10_MalformedBase ==
    \A f \in Flows :
        (pc[f] = "returned" /\ ~baseOk[f])
        => /\ ret[f] = Err(BaseParseMsg)
           /\ probes[f] = 0
           /\ lpc[f] = "none"
           /\ launched[f] = <<>>

\* ---------------------------------------------------------------- C11
\* the allocator was called by flow f and found no port
NoPortFound(f) == probes[f] > 0 /\ port[f] = None

\* C11: when the allocator finds no free port, start_oauth_flow returns the
\* no-available-port failure, and no listener is started, no socket is
\* bound, no URL is handed to the browser launcher and no focus thread is
\* spawned.
C11_NoPort ==
    \A f \in Flows :
        NoPortFound(f)
        => /\ pc[f] = "returned"
           /\ ret[f] = Err(NO_PORT_MSG)
           /\ lpc[f] = "none"
           /\ lsock[f] = None
           /\ sent[f] = <<>>
           /\ authUrl[f] = None
           /\ launched[f] = <<>>
           /\ focus[f] = "none"

C11_Witness ==
    \E f \in Flows :
        /\ NoPortFound(f)
        /\ cbranch[f] = "noport"
        /\ restBusy
        /\ envBusy = Window

\* ---------------------------------------------------------------- C12
\* the listener of flow f has published and ended
ListenerGone(f) == lpc[f] = "done" /\ lsock[f] = None

C12_Inv ==
    \A f \in Flows :
        cbranch[f] = "launchfail"
        => /\ pc[f] = "returned"
           /\ ret[f] = Err(OpenBrowserMsg)
           /\ focus[f] = "none"
           /\ lpc[f] # "none"
           /\ (lpc[f] \in {"send", "exit", "done"} /\ arrived[f] = 0
                   /\ lbranch[f] \notin {"bindfail", "ioerror"})
              => /\ lbranch[f] = "timeout"
                 /\ result[f] = Some(TimeoutResult(FlowUri(f)))

\* the step on which the launcher fails leaves the listener as it is
C12_Step ==
    \A f \in Flows :
        (pc[f] = "open" /\ cbranch'[f] = "launchfail")
        => /\ pc'[f] = "returned"
           /\ lpc'[f] = lpc[f]
           /\ lsock'[f] = lsock[f]
           /\ sent'[f] = sent[f]
           /\ result'[f] = result[f]

\* C12: when the browser launcher fails, start_oauth_flow returns the
\* launch error on that very step, whatever the listener has published; the
\* listener is left as it is, and from then on it eventually ends with its
\* port released: by its own timeout if no request reaches it, its bind
\* succeeded and its wait met no I/O error.
C12_LaunchFailure ==
    /\ [] C12_Inv
    /\ [][C12_Step]_vars
    /\ \A f \in Flows : (cbranch[f] = "launchfail") ~> ListenerGone(f)

C12_Witness ==
    \E f \in Flows :
        /\ cbranch[f] = "launchfail"
        /\ lbranch[f] = "timeout"
        /\ arrived[f] = 0
        /\ ListenerGone(f)
        /\ ~Busy(port[f][1])

\* ---------------------------------------------------------------- C13
\* C13: two flows that have been given a port and whose listeners have not
\* ended have been given different ports.
C13_DistinctPorts ==
    \A f, g \in Flows :
        (f # g /\ port[f] # None /\ port[g] # None
             /\ lpc[f] # "done" /\ lpc[g] # "done")
        => port[f] # port[g]

\* ---------------------------------------------------------------- C14
\* C14: when start_oauth_flow has returned, with any outcome, the flow's
\* listener (if one was started) has ended and its port is released.
C14_ListenerGoneOnReturn ==
    \A f \in Flows :
        pc[f] = "returned" => (lpc[f] \in {"none", "done"} /\ lsock[f] = None)

\* ---------------------------------------------------------------- C15
\* C15: the listener attempts the response write before it publishes, so a
\* published result of a served request, and a returned result carrying a
\* code, have the write behind them; a failed write leaves the listener on
\* its way to publish, the result unchanged, and that result is what it
\* publishes.
C15_WriteThenPublish ==
    \A f \in Flows :
        /\ (lbranch[f] = "request" /\ sent[f] # <<>>) => written[f] # "none"
        /\ (ret[f].tag = "Ok" /\ ret[f].val.code # None) => written[f] # "none"
        /\ written[f] = "failed"
           => /\ lpc[f] \in {"send", "exit", "done"}
              /\ result[f] = Some(BuildResult(firstArrived[f][1], FlowUri(f)))
              /\ lpc[f] \in {"exit", "done"} => sent[f] = <<result[f][1]>>

C15_Witness ==
    \E f \in Flows :
        /\ written[f] = "failed"
        /\ cbranch[f] = "recv"
        /\ ret[f] = Ok(BuildResult(firstArrived[f][1], FlowUri(f)))
        /\ ret[f].val.code # None

\* ---------------------------------------------------------------- C16
\* the result a listener publishes when its bind fails
BindFailure(f) == OAuthResult(None, None, Some(ServerStartMsg), Some(FlowUri(f)))

\* C16: a listener whose bind fails publishes the failure carrying the
\* server-start error and the flow's redirect URI, serves no request, holds
\* no socket and ends; a coordinator that receives it returns it as an Ok
\* value, not as an error.
C16_BindFailure ==
    \A f \in Flows :
        lbranch[f] = "bindfail"
        => /\ lpc[f] \in {"send", "exit", "done"}
           /\ result[f] = Some(BindFailure(f))
           /\ lpc[f] \in {"exit", "done"} => sent[f] = <<BindFailure(f)>>
           /\ firstReq[f] = None
           /\ page[f] = None
           /\ written[f] = "none"
           /\ lsock[f] = None
           /\ cbranch[f] = "recv" => ret[f] = Ok(BindFailure(f))

C16_Witness ==
    \E f \in Flows :
        /\ lbranch[f] = "bindfail"
        /\ lpc[f] = "done"
        /\ cbranch[f] = "recv"
        /\ ret[f] = Ok(BindFailure(f))

\* ---------------------------------------------------------------- C17
\* the names of the query pairs of url, in order
QueryNames(url) == [i \in 1..Len(url.query) |-> url.query[i][1]]

\* the decoded value of the i-th query pair of url
QueryValue(url, i) == Decode(url.query[i][2])

\* C17: the authorization URL carries exactly the seven parameters, in
\* order, an empty value included; its redirect_uri decodes to
\* http://127.0.0.1:<the allocated port>; that URL is what the launcher is
\* handed; the listener binds the same port; every published result
\* carries the same redirect URI.
C17_RedirectUriEverywhere ==
    \A f \in Flows :
        /\ authUrl[f] # None
           => LET url == authUrl[f][1]
              IN  /\ QueryNames(url) = <<"client_id", "redirect_uri", "response_type",
                                         "scope", "access_type", "prompt", "state">>
                  /\ QueryValue(url, 1) = args[f].client_id
                  /\ QueryValue(url, 2) = UriText(RedirectUri(port[f][1]))
                  /\ QueryValue(url, 3) = <<"code">>
                  /\ QueryValue(url, 4) = args[f].scope
                  /\ QueryValue(url, 5) = <<"offline">>
                  /\ QueryValue(url, 6) = <<"consent">>
                  /\ QueryValue(url, 7) = args[f].state
        /\ \A i \in 1..Len(launched[f]) : launched[f][i] = authUrl[f][1]
        /\ lsock[f] # None => lsock[f] = Some(RedirectUri(port[f][1]).port)
        /\ \A i \in 1..Len(sent[f]) :
               sent[f][i].redirect_uri = Some(RedirectUri(port[f][1]))

C17_Witness ==
    \E f \in Flows :
        /\ args[f] = [client_id |-> <<>>, scope |-> <<>>, state |-> <<>>]
        /\ launched[f] # <<>>
        /\ sent[f] # <<>>
        /\ lbranch[f] = "request"

\* ---------------------------------------------------------------- C18
\* the ports of the range, end excluded, that a bind would get now
FreePorts == {p \in PORT_START..(PORT_END - 1) : ~Busy(p)}

C18_Step ==
    \A f \in Flows :
        (pc[f] = "start" /\ pc'[f] # "start")
        => /\ (port'[f] = None) = (FreePorts = {})
           /\ port'[f] # None
              => /\ port'[f][1] \in FreePorts
                 /\ \A q \in FreePorts : port'[f][1] <= q
                 /\ PORT_START <= port'[f][1]
                 /\ port'[f][1] < PORT_END
           /\ envBusy' = envBusy
           /\ lsock' = lsock

C19_Returns ==
    \A f \in Flows : (f \in active /\ pc[f] = "start") ~> (pc[f] = "returned")

C19_Witness ==
    \E f \in Flows :
        /\ pc[f] = "returned"
        /\ cbranch[f] = "timeout"
        /\ lpc[f] = "listen"
        /\ sent[f] = <<>>

\* ---------------------------------------------------------------- C20
\* after the return nothing is queued for the coordinator
C20_Inv == \A f \in Flows : pc[f] = "returned" => chan[f] = <<>>

\* the returned value stays as it is; a send to the dropped receiver changes
\* only the listener's own position
C20_Step ==
    \A f \in Flows :
        /\ pc[f] = "returned" => (pc'[f] = "returned" /\ ret'[f] = ret[f])
        /\ (lpc[f] = "send" /\ lpc'[f] # "send" /\ ~rxAlive[f])
           => /\ lpc'[f] = "exit"
              /\ sent'[f] = Append(sent[f], result[f][1])
              /\ chan'[f] = chan[f]
              /\ ret'[f] = ret[f]

\* C20: a publish made after the coordinator has returned is harmless: the
\* send changes neither the returned value nor the channel, the result is
\* delivered to nobody, and the listener still ends with its port released.
C20_LatePublish ==
    /\ [] C20_Inv
    /\ [][C20_Step]_vars
    /\ \A f \in Flows : (pc[f] = "returned" /\ lpc[f] = "send") ~> ListenerGone(f)

C20_Witness ==
    \E f \in Flows :
        /\ cbranch[f] = "timeout"
        /\ Len(sent[f]) = 1
        /\ chan[f] = <<>>
        /\ ret[f] = Err(COORD_TIMEOUT_MSG)
        /\ ListenerGone(f)

====
